---- MODULE Spec2Model ----
(***************************************************************************)
(* Multi-provider AI completion adapter of app-starter-kit                 *)
(* (implementation/projekt_02/12-ai-adapter.md): the RateLimiter of        *)
(* providers/base.ts, the provider adapters' complete/stream and the       *)
(* AIAdapter facade with its fallback over providers.                      *)
(*                                                                         *)
(* Time.  The code reads the wall clock with Date.now() (milliseconds      *)
(* since the epoch) and compares stored instants with now - 60000.  The    *)
(* model counts in seconds (the polling interval of acquire is 1000 ms)    *)
(* and keeps every stored instant relative to the present: the clock       *)
(* reads DateNow in every state and the action Tick moves every stored     *)
(* instant TickSec seconds into the past.  An instant a full window        *)
(* old is treated the same by every comparison of the code however much    *)
(* older it gets, so Tick stops moving it at DateNow - WindowSec.  This    *)
(* keeps the state space finite while time advances without bound.         *)
(* The schedules explored are those in which the event loop runs at        *)
(* multiples of TickSec seconds: a 1000 ms timeout that expires between    *)
(* two of them fires at the next one (setTimeout promises no more than     *)
(* "not before"), and TicksPerWindow sets how fine these instants are.     *)
(***************************************************************************)
EXTENDS Integers, Sequences, FiniteSets, TLC

(***************************************************************************)
(* Bounds of the model                                                     *)
(***************************************************************************)
\* concurrent callers of one RateLimiter
NumCallers == 2
\* RateLimitConfig of the limiter under test (PROVIDER_RATE_LIMITS holds
\* 50..500 requests, 50000..1000000 tokens and 10..50 concurrent calls)
MaxRequestsPerMinute == 1
MaxTokensPerMinute == 1
MaxConcurrent == 1
\* instants per window at which the event loop runs
TicksPerWindow == 1
\* concurrent calls of the facade
NumCalls == 1
\* events a vendor stream delivers before it ends or fails
MaxEvents == 2
\* providers handed to createAIAdapter
MaxRequested == 2
\* the longest text handed to countTokens
MaxTextLength == 40
\* messages handed to truncateMessages, and the largest maxTokens
MaxMessages == 3
MaxBudget == 4

(***************************************************************************)
(* Program constants                                                       *)
(***************************************************************************)
\* now - 60000 (ms), in seconds
WindowSec == 60
\* setTimeout(resolve, 1000) (ms), in seconds
PollSec == 1
\* what Date.now() returns, in seconds since the epoch
DateNow == 1700000000
\* seconds between two instants at which the event loop runs
TickSec == WindowSec \div TicksPerWindow
\* options.maxTokens || 1000
DefaultEstimate == 1000

Callers == 1..NumCallers
\* estimatedTokens a caller passes: none, the whole token budget of a
\* minute, and more than that
Estimates == {0, MaxTokensPerMinute, MaxTokensPerMinute + 1}

\* AIProvider tags that addProvider accepts
Providers == {"openai", "anthropic", "google"}
\* the RateLimiter that the callers of SpecLimiter share
LimiterUnderTest == "openai"

Calls == 1..NumCalls

\* options.maxTokens of a request: absent, or the token budget of a minute
RequestMaxTokens == {0, MaxTokensPerMinute}

\* configs handed to the AIAdapter constructor: one config per provider tag
ConfigLists ==
  {cfg \in UNION {[1..n -> Providers] : n \in 1..3} :
     \A i, j \in DOMAIN cfg : i # j => cfg[i] # cfg[j]}

\* what a vendor call fails with: an HTTP status, or 0 for a failure
\* without one (network failure, exception inside the SDK)
RawStatuses == {0, 400, 429, 500}

\* what a vendor's complete call returns
Replies == {"r1", "r2"}

\* events of a vendor stream: a text delta, an event without text, the
\* vendor's stop event
VendorEvents(p) ==
  CASE p = "openai" -> {"delta", "stop"}
    [] p = "anthropic" -> {"delta", "other", "stop"}
    [] OTHER -> {"delta", "other"}

NoError == [provider |-> "none", type |-> "none", retryable |-> FALSE, statusCode |-> 0]
NoResult == [st |-> "none"]
\* no setProvider call made yet
NoSetCall == [tag |-> "none", st |-> "none"]
\* no function under evaluation
NoArgs == [fn |-> "none"]

VARIABLES
  requests,    \* RateLimiter.requests of each provider: instants pushed by admissions
  tokens,      \* RateLimiter.tokens of each provider: estimates pushed by admissions
  concurrent,  \* RateLimiter.concurrent of each provider
  pc,          \* where each caller is
  est,         \* estimatedTokens of the caller's pending acquire
  now0,        \* the `now` the caller's acquire read on entry (line 266)
  timer,       \* seconds left of the caller's setTimeout
  admitted,    \* history, per limiter: the instants of the newest admissions
               \* of the last WindowSec seconds
  sampled,     \* history, per limiter: instant and estimate of the newest
               \* admissions with estimatedTokens > 0 of the last WindowSec seconds
  configs,     \* the configs the AIAdapter was constructed with (provider tags)
  currentProvider,    \* AIAdapter.currentProvider
  fallbackProviders,  \* AIAdapter.fallbackProviders
  kind,        \* the facade operation a call runs: "complete", "stream", "none"
  maxTok,      \* options.maxTokens of the call's request (0: absent)
  provs,       \* the local `providers` of the call (lines 1017, 1042)
  idx,         \* position of the for loop in provs
  lastError,   \* the local `lastError` of the call
  settled,     \* how the provider operation ended, until the facade resumes
  outcome,     \* what the finished call handed to its caller
  attempts,    \* history: the providers whose operation the call has started
  results,     \* history: how each finished attempt ended
  emitted,     \* history: the vendor events the call's stream has pulled
  observed,    \* history: the chunks handed to the consumer of the stream
  asked,       \* history: how often the consumer called next()
  acqs,        \* history: admissions of the current provider operation
  rels,        \* history: releases of the current provider operation
  setCall,     \* history: tag and result of the last setProvider call
  args,        \* the arguments of the function under evaluation
  ret          \* what the function under evaluation returned or threw

limiterVars == <<requests, tokens, concurrent, admitted, sampled>>
callerVars == <<pc, est, now0, timer>>
adapterVars == <<configs, currentProvider, fallbackProviders>>
callVars == <<kind, maxTok, provs, idx, lastError, settled, outcome>>
historyVars == <<attempts, results, emitted, observed, asked, acqs, rels>>
evalVars == <<args, ret>>
\* what a call of complete, stream or embed leaves alone
standingVars == <<adapterVars, setCall, evalVars>>
facadeVars == <<adapterVars, callVars, historyVars, setCall, evalVars>>
vars == <<requests, tokens, concurrent, pc, est, now0, timer, admitted, sampled,
          facadeVars>>

RECURSIVE SumSeq(_)
SumSeq(s) == IF s = <<>> THEN 0 ELSE Head(s) + SumSeq(Tail(s))

Max(a, b) == IF a >= b THEN a ELSE b

\* const minuteAgo = now - 60000
MinuteAgo == DateNow - WindowSec

\* this.requests.filter(t => t > minuteAgo), this.tokens.filter(t => t > minuteAgo)
Clean(s) == SelectSeq(s, LAMBDA t : t > MinuteAgo)

\* WhileCond without its test of the in-flight count
WhileCondNoConcurrent(reqs, toks, conc, e) ==
  \/ Len(reqs) >= MaxRequestsPerMinute
  \/ SumSeq(toks) + e > MaxTokensPerMinute

\* the condition of the while loop of acquire, on the cleaned windows
WhileCond(reqs, toks, conc, e) ==
  \/ Len(reqs) >= MaxRequestsPerMinute
  \/ SumSeq(toks) + e > MaxTokensPerMinute
  \/ conc >= MaxConcurrent

\* the newest n elements of s
Newest(s, n) == IF Len(s) > n THEN SubSeq(s, Len(s) - n + 1, Len(s)) ELSE s

\* the histories keep as many admissions as it takes to exceed a cap
KeptAdmissions == MaxRequestsPerMinute + 1
KeptSamples == MaxTokensPerMinute + 1

\* this.requests.push(now): `now` is the const of line 266, read on entry
PushedStamp(entry) == entry

\* if (estimatedTokens > 0) this.tokens.push(estimatedTokens)
PushTokens(toks, e) == IF e > 0 THEN Append(toks, e) ELSE toks

\* lines 288-292 on the cleaned windows reqs, toks: the admission
Admit(p, reqs, toks, entry, e) ==
  /\ requests' = [requests EXCEPT ![p] = Append(reqs, PushedStamp(entry))]
  /\ tokens' = [tokens EXCEPT ![p] = PushTokens(toks, e)]
  /\ concurrent' = [concurrent EXCEPT ![p] = @ + 1]
  /\ admitted' = [admitted EXCEPT ![p] = Newest(Append(@, DateNow), KeptAdmissions)]
  /\ sampled' = [sampled EXCEPT ![p] =
                   IF e > 0 THEN Newest(Append(@, [at |-> DateNow, tok |-> e]), KeptSamples)
                   ELSE @]

\* one evaluation of the while condition after a clean: admit, or start the
\* 1000 ms timeout
CheckLimits(c, p, entry, e, okpc, waitpc) ==
  LET reqs == Clean(requests[p])
      toks == Clean(tokens[p])
  IN IF WhileCond(reqs, toks, concurrent[p], e)
     THEN /\ requests' = [requests EXCEPT ![p] = reqs]
          /\ tokens' = [tokens EXCEPT ![p] = toks]
          /\ UNCHANGED <<concurrent, admitted, sampled>>
          /\ pc' = [pc EXCEPT ![c] = waitpc]
          /\ est' = [est EXCEPT ![c] = e]
          /\ now0' = [now0 EXCEPT ![c] = entry]
          /\ timer' = [timer EXCEPT ![c] = PollSec]
     ELSE /\ Admit(p, reqs, toks, entry, e)
          /\ pc' = [pc EXCEPT ![c] = okpc]
          /\ est' = [est EXCEPT ![c] = 0]
          /\ now0' = [now0 EXCEPT ![c] = DateNow]
          /\ timer' = [timer EXCEPT ![c] = 0]

\* acquire(estimatedTokens) up to its first await (lines 265-279)
AcquireEnter(c, p, e, okpc, waitpc) == CheckLimits(c, p, DateNow, e, okpc, waitpc)

\* the timeout fires: re-clean, evaluate the while condition again (lines 280-292)
AcquireResume(c, p, okpc, waitpc) ==
  /\ timer[c] = 0
  /\ CheckLimits(c, p, now0[c], est[c], okpc, waitpc)

\* release(): this.concurrent--
ReleasePermit(p) == concurrent' = [concurrent EXCEPT ![p] = @ - 1]

(***************************************************************************)
(* Passage of TickSec seconds                                              *)
(***************************************************************************)
Past(t) == Max(t - TickSec, MinuteAgo)

Sleeping(c) == pc[c] \in {"sleeping", "c_sleep", "s_sleep"}

Tick ==
  /\ \A c \in Callers : ~(Sleeping(c) /\ timer[c] = 0)
  /\ requests' = [p \in Providers |->
                    [i \in DOMAIN requests[p] |-> Past(requests[p][i])]]
  /\ now0' = [c \in Callers |-> IF Sleeping(c) THEN Past(now0[c]) ELSE now0[c]]
  /\ timer' = [c \in Callers |-> Max(timer[c] - TickSec, 0)]
  /\ admitted' = [p \in Providers |->
                    Clean([i \in DOMAIN admitted[p] |-> admitted[p][i] - TickSec])]
  /\ sampled' = [p \in Providers |->
                   SelectSeq([i \in DOMAIN sampled[p] |->
                                [sampled[p][i] EXCEPT !.at = @ - TickSec]],
                             LAMBDA a : a.at > MinuteAgo)]
  /\ UNCHANGED <<tokens, concurrent, pc, est, facadeVars>>

(***************************************************************************)
(* SpecLimiter: callers that use one RateLimiter directly                  *)
(***************************************************************************)
Acquire(c, e) ==
  /\ pc[c] = "idle"
  /\ AcquireEnter(c, LimiterUnderTest, e, "holding", "sleeping")
  /\ UNCHANGED facadeVars

Resume(c) ==
  /\ pc[c] = "sleeping"
  /\ AcquireResume(c, LimiterUnderTest, "holding", "sleeping")
  /\ UNCHANGED facadeVars

Release(c) ==
  /\ pc[c] = "holding"
  /\ ReleasePermit(LimiterUnderTest)
  /\ pc' = [pc EXCEPT ![c] = "idle"]
  /\ UNCHANGED <<requests, tokens, admitted, sampled, est, now0, timer, facadeVars>>

InitRateLimiters ==
  /\ requests = [p \in Providers |-> <<>>]
  /\ tokens = [p \in Providers |-> <<>>]
  /\ concurrent = [p \in Providers |-> 0]
  /\ admitted = [p \in Providers |-> <<>>]
  /\ sampled = [p \in Providers |-> <<>>]
  /\ pc = [c \in Callers |-> "idle"]
  /\ est = [c \in Callers |-> 0]
  /\ now0 = [c \in Callers |-> DateNow]
  /\ timer = [c \in Callers |-> 0]

\* the constructor of AIAdapter (lines 974-987), no call made yet
InitAdapter(cfg) ==
  /\ configs = cfg
  /\ currentProvider = cfg[1]
  /\ fallbackProviders = Tail(cfg)
  /\ setCall = NoSetCall
  /\ kind = [c \in Callers |-> "none"]
  /\ maxTok = [c \in Callers |-> 0]
  /\ provs = [c \in Callers |-> <<>>]
  /\ idx = [c \in Callers |-> 0]
  /\ lastError = [c \in Callers |-> NoError]
  /\ settled = [c \in Callers |-> NoResult]
  /\ outcome = [c \in Callers |-> NoResult]
  /\ attempts = [c \in Callers |-> <<>>]
  /\ results = [c \in Callers |-> <<>>]
  /\ emitted = [c \in Callers |-> <<>>]
  /\ observed = [c \in Callers |-> <<>>]
  /\ asked = [c \in Callers |-> 0]
  /\ acqs = [c \in Callers |-> 0]
  /\ rels = [c \in Callers |-> 0]

\* no function is under evaluation
InitNoEval ==
  /\ args = NoArgs
  /\ ret = NoResult

InitLimiter ==
  /\ InitRateLimiters
  /\ InitAdapter(<<LimiterUnderTest>>)
  /\ InitNoEval

NextLimiter ==
  \/ \E c \in Callers, e \in Estimates : Acquire(c, e)
  \/ \E c \in Callers : Resume(c)
  \/ \E c \in Callers : Release(c)
  \/ Tick

SpecLimiter == InitLimiter /\ [][NextLimiter]_vars

\* SpecLimiter with the scheduling the event loop gives: time goes on, a
\* timeout that is due fires, and a caller that holds a permit releases it
FairLimiter ==
  /\ SpecLimiter
  /\ WF_vars(Tick)
  /\ \A c \in Callers : WF_vars(Resume(c))
  /\ \A c \in Callers : WF_vars(Release(c))

(***************************************************************************)
(* Provider adapters: error normalisation, complete and stream             *)
(***************************************************************************)
\* the status tests shared by OpenAIProvider.handleError (lines 491-494) and
\* AnthropicProvider.handleError (lines 722-725)
StatusError(p, s) ==
  [provider |-> p,
   type |-> IF s = 429 THEN "rate_limit"
            ELSE IF s = 401 THEN "authentication"
            ELSE IF s >= 500 THEN "server_error"
            ELSE "invalid_request",
   retryable |-> (s = 429 \/ s >= 500),
   statusCode |-> s]

\* createError(error.message || 'Unknown error', 'server_error'): no status
\* code, retryable false by default
PlainError(p) ==
  [provider |-> p, type |-> "server_error", retryable |-> FALSE, statusCode |-> 0]

\* GoogleProvider.handleError: tests of the message text; the message of a
\* failure with HTTP status s holds the digits of s and of no other status
GoogleError(p, s) ==
  [provider |-> p,
   type |-> IF s = 429 THEN "rate_limit"
            ELSE IF s = 401 THEN "authentication"
            ELSE IF s = 500 THEN "server_error"
            ELSE "invalid_request",
   retryable |-> (s = 429 \/ s = 500),
   statusCode |-> 0]

\* handleError of the provider p for a vendor failure with status s (0: none)
HandleError(p, s) ==
  CASE p = "google" -> GoogleError(p, s)
    [] OTHER -> IF s # 0 THEN StatusError(p, s) ELSE PlainError(p)

\* convertResponse: the provider's response for the vendor reply r
ConvertResponse(p, r) == [from |-> p, body |-> r]

\* options.maxTokens || 1000
Estimate(m) == IF m = 0 THEN DefaultEstimate ELSE m

\* does the stream of provider p yield a chunk for the vendor event ev
\* ("end": the vendor stream is exhausted)
Yields(p, ev) ==
  CASE p = "openai" -> ev # "end"
    [] p = "anthropic" -> ev \in {"delta", "stop"}
    [] OTHER -> ev \in {"delta", "end"}

\* finishReason of the chunk yielded for ev
FinishReason(p, ev) ==
  CASE p = "openai" -> IF ev = "stop" THEN "stop" ELSE "null"
    [] p = "anthropic" -> IF ev = "stop" THEN "stop" ELSE "null"
    [] OTHER -> IF ev = "end" THEN "stop" ELSE "null"

\* the provider whose operation the call c runs
CurProv(c) == provs[c][idx[c]]

\* a finally block that releases only when the try block did not throw
FinallyUnlessThrown(c, p, res) ==
  IF res.st = "err"
  THEN UNCHANGED <<concurrent, rels>>
  ELSE /\ ReleasePermit(p)
       /\ rels' = [rels EXCEPT ![c] = @ + 1]

\* finally { this.rateLimiter.release(); } of complete and stream
Finally(c, p, res) ==
  /\ ReleasePermit(p)
  /\ rels' = [rels EXCEPT ![c] = @ + 1]

\* provider.complete / provider.stream up to the await of acquire
StartAttempt(c, i, plist, m, okpc, waitpc) ==
  /\ AcquireEnter(c, plist[i], Estimate(m), okpc, waitpc)
  /\ idx' = [idx EXCEPT ![c] = i]
  /\ acqs' = [acqs EXCEPT ![c] = IF pc'[c] = okpc THEN 1 ELSE 0]
  /\ rels' = [rels EXCEPT ![c] = 0]

\* a provider operation that settles without its finally block
ProviderExitKeepsPermit(c, res, nextpc) ==
  /\ UNCHANGED <<concurrent, rels>>
  /\ settled' = [settled EXCEPT ![c] = res]
  /\ results' = [results EXCEPT ![c] = Append(@, res)]
  /\ pc' = [pc EXCEPT ![c] = nextpc]
  /\ UNCHANGED <<requests, tokens, admitted, sampled, est, now0, timer>>

\* the provider operation of c ends with res: finally, then the promise settles
ProviderExit(c, res, nextpc) ==
  /\ Finally(c, CurProv(c), res)
  /\ settled' = [settled EXCEPT ![c] = res]
  /\ results' = [results EXCEPT ![c] = Append(@, res)]
  /\ pc' = [pc EXCEPT ![c] = nextpc]
  /\ UNCHANGED <<requests, tokens, admitted, sampled, est, now0, timer>>

\* the timeout of an acquire inside complete or stream fires
ProviderResume(c) ==
  /\ pc[c] \in {"c_sleep", "s_sleep"}
  /\ LET okpc == IF pc[c] = "c_sleep" THEN "c_call" ELSE "s_pull"
     IN /\ AcquireResume(c, CurProv(c), okpc, pc[c])
        /\ acqs' = [acqs EXCEPT ![c] = IF pc'[c] = okpc THEN 1 ELSE @]
  /\ UNCHANGED <<standingVars, callVars, attempts, results, emitted, observed,
                 asked, rels>>

\* the vendor call of complete returns the reply r (lines 335-350)
CompleteReturns(c, r) ==
  /\ pc[c] = "c_call"
  /\ ProviderExit(c, [st |-> "ok", val |-> ConvertResponse(CurProv(c), r)], "c_settled")
  /\ UNCHANGED <<standingVars, kind, maxTok, provs, idx, lastError, outcome,
                 attempts, emitted, observed, asked, acqs>>

\* the vendor call of complete fails with status s (lines 351-352)
CompleteRaises(c, s) ==
  /\ pc[c] = "c_call"
  /\ ProviderExit(c, [st |-> "err", val |-> HandleError(CurProv(c), s)], "c_settled")
  /\ UNCHANGED <<standingVars, kind, maxTok, provs, idx, lastError, outcome,
                 attempts, emitted, observed, asked, acqs>>

(***************************************************************************)
(* Provider streams: one async generator per stream call                   *)
(***************************************************************************)
\* a yield that puts the chunk in front of the chunks already delivered
DeliverInFront(obs, chunk) == <<chunk>> \o obs

\* yield: the chunk goes to the consumer, behind the chunks it already has
Deliver(obs, chunk) == Append(obs, chunk)

\* the events the stream call c has pulled from its vendors so far
Pulled(c) == SelectSeq(emitted[c], LAMBDA x : x.ev # "end")

\* the chunk yielded for the event that is number n of the call
ChunkFor(c, n, ev) ==
  [att |-> idx[c], n |-> n, finish |-> FinishReason(CurProv(c), ev)]

\* one round of `for await (... of stream)`: the vendor delivers ev
VendorEvent(c, ev) ==
  /\ pc[c] = "s_pull"
  /\ ev \in VendorEvents(CurProv(c))
  /\ Len(Pulled(c)) < MaxEvents
  /\ emitted' = [emitted EXCEPT ![c] = Append(@, [att |-> idx[c], ev |-> ev])]
  /\ IF Yields(CurProv(c), ev)
     THEN /\ observed' = [observed EXCEPT ![c] =
                            Deliver(@, ChunkFor(c, Len(emitted[c]) + 1, ev))]
          /\ pc' = [pc EXCEPT ![c] = "s_yield"]
     ELSE UNCHANGED <<observed, pc>>
  /\ UNCHANGED <<requests, tokens, concurrent, admitted, sampled, est, now0, timer,
                 standingVars, callVars, attempts, results, asked, acqs, rels>>

\* the vendor stream is exhausted: the for await loop ends; GoogleProvider
\* yields its final chunk (lines 842-853), the others leave the try block
VendorEnd(c) ==
  /\ pc[c] = "s_pull"
  /\ emitted' = [emitted EXCEPT ![c] = Append(@, [att |-> idx[c], ev |-> "end"])]
  /\ IF Yields(CurProv(c), "end")
     THEN /\ observed' = [observed EXCEPT ![c] =
                            Deliver(@, ChunkFor(c, Len(emitted[c]) + 1, "end"))]
          /\ pc' = [pc EXCEPT ![c] = "s_final"]
          /\ UNCHANGED <<requests, tokens, concurrent, admitted, sampled, est, now0,
                         timer, settled, results, rels>>
     ELSE /\ ProviderExit(c, [st |-> "done"], "s_settled")
          /\ UNCHANGED observed
  /\ UNCHANGED <<standingVars, kind, maxTok, provs, idx, lastError, outcome,
                 attempts, asked, acqs>>

\* the vendor's streaming call or its event stream fails with status s
VendorFail(c, s) ==
  /\ pc[c] = "s_pull"
  /\ ProviderExit(c, [st |-> "err", val |-> HandleError(CurProv(c), s)], "s_settled")
  /\ UNCHANGED <<standingVars, kind, maxTok, provs, idx, lastError, outcome,
                 attempts, emitted, observed, asked, acqs>>

(***************************************************************************)
(* AIAdapter: setProvider, complete, stream                                *)
(***************************************************************************)
\* a facade that goes on to the next provider whatever the error is
FallsBackAlways(e) == TRUE

\* the test of lines 1032 and 1057, negated: the loop goes on to the next provider
FallsBack(e) == ~(e.retryable = FALSE /\ e.type # "rate_limit")

\* new Error('All providers failed')
GenericError == [provider |-> "none", type |-> "none", retryable |-> FALSE, statusCode |-> -1]

\* a facade that raises the generic error once the providers are exhausted
ThrownGeneric(last) == GenericError

\* throw lastError || new Error('All providers failed')
ThrownAtEnd(last) == IF last = NoError THEN GenericError ELSE last

\* a facade that wraps the provider's response before it returns it
ReturnedWrapped(resp) == [from |-> "facade", body |-> resp.body]

\* return await provider.complete(options)
Returned(resp) == resp

\* const providers = [this.currentProvider, ...this.fallbackProviders]
ProviderList == <<currentProvider>> \o fallbackProviders

\* a setProvider that takes the new current provider out of the fallbacks
SetProviderDropsFallback(tag) ==
  /\ currentProvider' = IF \E i \in DOMAIN configs : configs[i] = tag
                        THEN tag ELSE currentProvider
  /\ fallbackProviders' = SelectSeq(fallbackProviders, LAMBDA f : f # tag)
  /\ setCall' = [tag |-> tag,
                 st |-> IF \E i \in DOMAIN configs : configs[i] = tag
                        THEN "ok" ELSE "raised"]
  /\ UNCHANGED <<requests, tokens, concurrent, admitted, sampled, pc, est, now0,
                 timer, configs, callVars, historyVars, evalVars>>

\* setProvider(provider) (lines 1009-1014); an unconfigured tag throws
SetProvider(tag) ==
  /\ currentProvider' = IF \E i \in DOMAIN configs : configs[i] = tag
                        THEN tag ELSE currentProvider
  /\ setCall' = [tag |-> tag,
                 st |-> IF \E i \in DOMAIN configs : configs[i] = tag
                        THEN "ok" ELSE "raised"]
  /\ UNCHANGED <<requests, tokens, concurrent, admitted, sampled, pc, est, now0,
                 timer, configs, fallbackProviders, callVars, historyVars, evalVars>>

\* the call is over: outcome o goes to its caller
Finish(c, o) ==
  /\ outcome' = [outcome EXCEPT ![c] = o]
  /\ pc' = [pc EXCEPT ![c] = "done"]
  /\ settled' = [settled EXCEPT ![c] = NoResult]

\* the catch block of complete and stream for the error e, then the next
\* round of the loop or the throw behind it
AfterFailure(c, e, okpc, waitpc) ==
  /\ lastError' = [lastError EXCEPT ![c] = e]
  /\ IF ~FallsBack(e)
     THEN /\ Finish(c, [st |-> "raised", val |-> e])
          /\ UNCHANGED <<requests, tokens, concurrent, admitted, sampled, est, now0,
                         timer, idx, attempts, acqs, rels>>
     ELSE IF idx[c] < Len(provs[c])
     THEN /\ StartAttempt(c, idx[c] + 1, provs[c], maxTok[c], okpc, waitpc)
          /\ attempts' = [attempts EXCEPT ![c] = Append(@, provs[c][idx[c] + 1])]
          /\ settled' = [settled EXCEPT ![c] = NoResult]
          /\ UNCHANGED outcome
     ELSE /\ Finish(c, [st |-> "raised", val |-> ThrownAtEnd(e)])
          /\ UNCHANGED <<requests, tokens, concurrent, admitted, sampled, est, now0,
                         timer, idx, attempts, acqs, rels>>

\* AIAdapter.complete up to its first await (lines 1016-1025)
FacadeComplete(c, m) ==
  /\ pc[c] = "idle"
  /\ StartAttempt(c, 1, ProviderList, m, "c_call", "c_sleep")
  /\ kind' = [kind EXCEPT ![c] = "complete"]
  /\ maxTok' = [maxTok EXCEPT ![c] = m]
  /\ provs' = [provs EXCEPT ![c] = ProviderList]
  /\ lastError' = [lastError EXCEPT ![c] = NoError]
  /\ settled' = [settled EXCEPT ![c] = NoResult]
  /\ outcome' = [outcome EXCEPT ![c] = NoResult]
  /\ attempts' = [attempts EXCEPT ![c] = <<ProviderList[1]>>]
  /\ results' = [results EXCEPT ![c] = <<>>]
  /\ emitted' = [emitted EXCEPT ![c] = <<>>]
  /\ observed' = [observed EXCEPT ![c] = <<>>]
  /\ asked' = [asked EXCEPT ![c] = 0]
  /\ UNCHANGED standingVars

\* complete resumes after `await provider.complete(options)` (lines 1025-1038)
CompleteResumes(c) ==
  /\ pc[c] = "c_settled"
  /\ IF settled[c].st = "ok"
     THEN /\ Finish(c, [st |-> "returned", val |-> Returned(settled[c].val)])
          /\ UNCHANGED <<requests, tokens, concurrent, admitted, sampled, est, now0,
                         timer, idx, lastError, attempts, acqs, rels>>
     ELSE AfterFailure(c, settled[c].val, "c_call", "c_sleep")
  /\ UNCHANGED <<standingVars, kind, maxTok, provs, results, emitted, observed, asked>>

\* AIAdapter.stream(options): the generator object is made, its body has
\* not started
FacadeStream(c, m) ==
  /\ pc[c] = "idle"
  /\ pc' = [pc EXCEPT ![c] = "s_created"]
  /\ kind' = [kind EXCEPT ![c] = "stream"]
  /\ maxTok' = [maxTok EXCEPT ![c] = m]
  /\ provs' = [provs EXCEPT ![c] = <<>>]
  /\ idx' = [idx EXCEPT ![c] = 0]
  /\ lastError' = [lastError EXCEPT ![c] = NoError]
  /\ settled' = [settled EXCEPT ![c] = NoResult]
  /\ outcome' = [outcome EXCEPT ![c] = NoResult]
  /\ attempts' = [attempts EXCEPT ![c] = <<>>]
  /\ results' = [results EXCEPT ![c] = <<>>]
  /\ emitted' = [emitted EXCEPT ![c] = <<>>]
  /\ observed' = [observed EXCEPT ![c] = <<>>]
  /\ asked' = [asked EXCEPT ![c] = 0]
  /\ acqs' = [acqs EXCEPT ![c] = 0]
  /\ rels' = [rels EXCEPT ![c] = 0]
  /\ UNCHANGED <<requests, tokens, concurrent, admitted, sampled, est, now0, timer,
                 standingVars>>

\* the consumer's first next(): the body of AIAdapter.stream starts and
\* runs into the first provider's stream (lines 1042-1050, 358-360)
StreamStarts(c) ==
  /\ pc[c] = "s_created"
  /\ StartAttempt(c, 1, ProviderList, maxTok[c], "s_pull", "s_sleep")
  /\ provs' = [provs EXCEPT ![c] = ProviderList]
  /\ attempts' = [attempts EXCEPT ![c] = <<ProviderList[1]>>]
  /\ asked' = [asked EXCEPT ![c] = 1]
  /\ UNCHANGED <<standingVars, kind, maxTok, lastError, settled, outcome, results,
                 emitted, observed>>

\* the consumer calls next() with a chunk in hand: the generator goes on
\* behind its yield
StreamNext(c) ==
  /\ pc[c] \in {"s_yield", "s_final"}
  /\ asked' = [asked EXCEPT ![c] = @ + 1]
  /\ IF pc[c] = "s_yield"
     THEN /\ pc' = [pc EXCEPT ![c] = "s_pull"]
          /\ UNCHANGED <<requests, tokens, concurrent, admitted, sampled, est, now0,
                         timer, settled, results, rels>>
     ELSE ProviderExit(c, [st |-> "done"], "s_settled")
  /\ UNCHANGED <<standingVars, kind, maxTok, provs, idx, lastError, outcome,
                 attempts, emitted, observed, acqs>>

\* a return() that ends the generator without running its finally block
StreamReturnKeepsPermit(c) ==
  /\ pc[c] \in {"s_created", "s_yield", "s_final"}
  /\ IF pc[c] = "s_created"
     THEN UNCHANGED results
     ELSE results' = [results EXCEPT ![c] = Append(@, [st |-> "closed"])]
  /\ Finish(c, [st |-> "closed"])
  /\ UNCHANGED <<requests, tokens, concurrent, admitted, sampled, est, now0, timer,
                 standingVars, kind, maxTok, provs, idx, lastError, attempts,
                 emitted, observed, asked, acqs, rels>>

\* the consumer abandons the stream: return() on the generator (what a
\* break out of for await does)
StreamReturn(c) ==
  /\ pc[c] \in {"s_created", "s_yield", "s_final"}
  /\ IF pc[c] = "s_created"
     THEN UNCHANGED <<concurrent, rels, results>>
     ELSE /\ Finally(c, CurProv(c), [st |-> "closed"])
          /\ results' = [results EXCEPT ![c] = Append(@, [st |-> "closed"])]
  /\ Finish(c, [st |-> "closed"])
  /\ UNCHANGED <<requests, tokens, admitted, sampled, est, now0, timer,
                 standingVars, kind, maxTok, provs, idx, lastError, attempts,
                 emitted, observed, asked, acqs>>

\* stream resumes after `yield* provider.stream(options)` (lines 1050-1063)
StreamResumes(c) ==
  /\ pc[c] = "s_settled"
  /\ IF settled[c].st = "done"
     THEN /\ Finish(c, [st |-> "returned", val |-> [st |-> "done"]])
          /\ UNCHANGED <<requests, tokens, concurrent, admitted, sampled, est, now0,
                         timer, idx, lastError, attempts, acqs, rels>>
     ELSE AfterFailure(c, settled[c].val, "s_pull", "s_sleep")
  /\ UNCHANGED <<standingVars, kind, maxTok, provs, results, emitted, observed, asked>>

(***************************************************************************)
(* embed: the providers' embed and AIAdapter.embed                         *)
(***************************************************************************)
\* const embeddingProviders = ['openai', 'google']
EmbeddingProviders == <<"openai", "google">>

\* this.providers.has(p): addProvider has put a provider under the tag
HasProvider(tag) == \E i \in DOMAIN configs : configs[i] = tag

\* embeddingProviders.filter(p => this.providers.has(p))
AvailableProviders == SelectSeq(EmbeddingProviders, HasProvider)

\* new Error('No embedding providers available'): a plain Error, without
\* provider, type or retryable (read as false where the model needs a value)
NoEmbeddingProviders ==
  [provider |-> "none", type |-> "none", retryable |-> FALSE, statusCode |-> 0,
   message |-> "No embedding providers available"]

\* new Error('Embeddings not supported by Anthropic. ...'): a plain Error
EmbeddingsNotSupported ==
  [provider |-> "none", type |-> "none", retryable |-> FALSE, statusCode |-> 0,
   message |-> "Embeddings not supported by Anthropic"]

\* the response object that embed of OpenAIProvider and GoogleProvider
\* builds from the vendor reply r
EmbedResponse(p, r) == [from |-> p, body |-> r]

\* an embed call starts on the providers plist: its first provider's embed
\* runs into its vendor call, without acquire
StartEmbed(c, k, plist) ==
  /\ pc[c] = "idle"
  /\ kind' = [kind EXCEPT ![c] = k]
  /\ provs' = [provs EXCEPT ![c] = plist]
  /\ idx' = [idx EXCEPT ![c] = 1]
  /\ attempts' = [attempts EXCEPT ![c] = <<plist[1]>>]
  /\ pc' = [pc EXCEPT ![c] = "e_call"]
  /\ UNCHANGED <<settled, outcome, results>>

\* AIAdapter.embed up to its first await (lines 1066-1076), or to the throw
\* of line 1085 when no provider is left by the filter
FacadeEmbed(c) ==
  /\ IF AvailableProviders = <<>>
     THEN /\ pc[c] = "idle"
          /\ kind' = [kind EXCEPT ![c] = "embed"]
          /\ Finish(c, [st |-> "raised", val |-> NoEmbeddingProviders])
          /\ UNCHANGED <<provs, idx, attempts, results>>
     ELSE StartEmbed(c, "embed", AvailableProviders)
  /\ UNCHANGED <<requests, tokens, concurrent, admitted, sampled, est, now0, timer,
                 standingVars, maxTok, lastError, emitted, observed, asked, acqs, rels>>

\* embed of the provider p, called on the provider itself
ProviderEmbed(c, p) ==
  /\ IF p = "anthropic"
     THEN /\ pc[c] = "idle"
          /\ kind' = [kind EXCEPT ![c] = "provider_embed"]
          /\ provs' = [provs EXCEPT ![c] = <<p>>]
          /\ idx' = [idx EXCEPT ![c] = 1]
          /\ attempts' = [attempts EXCEPT ![c] = <<p>>]
          /\ results' = [results EXCEPT ![c] =
                           <<[st |-> "err", val |-> EmbeddingsNotSupported]>>]
          /\ Finish(c, [st |-> "raised", val |-> EmbeddingsNotSupported])
     ELSE StartEmbed(c, "provider_embed", <<p>>)
  /\ UNCHANGED <<requests, tokens, concurrent, admitted, sampled, est, now0, timer,
                 standingVars, maxTok, lastError, emitted, observed, asked, acqs, rels>>

\* the provider's embed ends with res: its promise settles
EmbedExit(c, res) ==
  /\ settled' = [settled EXCEPT ![c] = res]
  /\ results' = [results EXCEPT ![c] = Append(@, res)]
  /\ pc' = [pc EXCEPT ![c] = "e_settled"]
  /\ UNCHANGED <<requests, tokens, concurrent, admitted, sampled, est, now0, timer,
                 standingVars, kind, maxTok, provs, idx, lastError, outcome,
                 attempts, emitted, observed, asked, acqs, rels>>

\* the vendor's embedding call returns the reply r (lines 389-404, 863-887)
EmbedReturns(c, r) ==
  /\ pc[c] = "e_call"
  /\ EmbedExit(c, [st |-> "ok", val |-> EmbedResponse(CurProv(c), r)])

\* the vendor's embedding call fails with status s (lines 405-406, 888-889)
EmbedRaises(c, s) ==
  /\ pc[c] = "e_call"
  /\ EmbedExit(c, [st |-> "err", val |-> HandleError(CurProv(c), s)])

\* the catch block of AIAdapter.embed rethrows (line 1079)
IsLastAvailable(c) == CurProv(c) = provs[c][Len(provs[c])]

\* the caller of embed resumes after `await provider.embed(options)`; in
\* AIAdapter.embed, lines 1076-1082
EmbedResumes(c) ==
  /\ pc[c] = "e_settled"
  /\ IF settled[c].st = "ok"
     THEN /\ Finish(c, [st |-> "returned", val |-> settled[c].val])
          /\ UNCHANGED <<idx, attempts>>
     ELSE IF IsLastAvailable(c)
     THEN /\ Finish(c, [st |-> "raised", val |-> settled[c].val])
          /\ UNCHANGED <<idx, attempts>>
     ELSE /\ idx' = [idx EXCEPT ![c] = @ + 1]
          /\ attempts' = [attempts EXCEPT ![c] = Append(@, provs[c][idx[c] + 1])]
          /\ pc' = [pc EXCEPT ![c] = "e_call"]
          /\ settled' = [settled EXCEPT ![c] = NoResult]
          /\ UNCHANGED outcome
  /\ UNCHANGED <<requests, tokens, concurrent, admitted, sampled, est, now0, timer,
                 standingVars, kind, maxTok, provs, lastError, results, emitted,
                 observed, asked, acqs, rels>>

Init ==
  /\ InitRateLimiters
  /\ \E cfg \in ConfigLists : InitAdapter(cfg)
  /\ InitNoEval

Next ==
  \/ \E tag \in Providers : SetProvider(tag)
  \/ \E c \in Calls, m \in RequestMaxTokens : FacadeComplete(c, m)
  \/ \E c \in Calls, m \in RequestMaxTokens : FacadeStream(c, m)
  \/ \E c \in Calls : ProviderResume(c)
  \/ \E c \in Calls, r \in Replies : CompleteReturns(c, r)
  \/ \E c \in Calls, s \in RawStatuses : CompleteRaises(c, s)
  \/ \E c \in Calls : CompleteResumes(c)
  \/ \E c \in Calls : StreamStarts(c)
  \/ \E c \in Calls : StreamNext(c)
  \/ \E c \in Calls : StreamReturn(c)
  \/ \E c \in Calls, ev \in {"delta", "other", "stop"} : VendorEvent(c, ev)
  \/ \E c \in Calls : VendorEnd(c)
  \/ \E c \in Calls, s \in RawStatuses : VendorFail(c, s)
  \/ \E c \in Calls : StreamResumes(c)
  \/ \E c \in Calls : FacadeEmbed(c)
  \/ \E c \in Calls, p \in Providers : ProviderEmbed(c, p)
  \/ \E c \in Calls, r \in Replies : EmbedReturns(c, r)
  \/ \E c \in Calls, s \in RawStatuses : EmbedRaises(c, s)
  \/ \E c \in Calls : EmbedResumes(c)
  \/ Tick

Spec == Init /\ [][Next]_vars

(***************************************************************************)
(* SpecShared: several complete and stream calls at once on one provider   *)
(***************************************************************************)
InitShared ==
  /\ InitRateLimiters
  /\ \E p \in Providers : InitAdapter(<<p>>)
  /\ InitNoEval

NextShared ==
  \/ \E c \in Callers, m \in RequestMaxTokens : FacadeComplete(c, m)
  \/ \E c \in Callers, m \in RequestMaxTokens : FacadeStream(c, m)
  \/ \E c \in Callers : ProviderResume(c)
  \/ \E c \in Callers, r \in Replies : CompleteReturns(c, r)
  \/ \E c \in Callers, s \in RawStatuses : CompleteRaises(c, s)
  \/ \E c \in Callers : CompleteResumes(c)
  \/ \E c \in Callers : StreamStarts(c)
  \/ \E c \in Callers : StreamNext(c)
  \/ \E c \in Callers : StreamReturn(c)
  \/ \E c \in Callers, ev \in {"delta", "other", "stop"} : VendorEvent(c, ev)
  \/ \E c \in Callers : VendorEnd(c)
  \/ \E c \in Callers, s \in RawStatuses : VendorFail(c, s)
  \/ \E c \in Callers : StreamResumes(c)
  \/ Tick

SpecShared == InitShared /\ [][NextShared]_vars

(***************************************************************************)
(* SpecFunctions: createAIAdapter and the static functions, each applied   *)
(* once to arguments drawn from bounded sets                               *)
(***************************************************************************)
\* AIProvider = 'openai' | 'anthropic' | 'google' | 'custom'
ProviderTags == Providers \cup {"custom"}

\* an element of the `providers` argument: a tag, with or without apiKey
Requests == [provider : ProviderTags, apiKey : BOOLEAN]

RequestLists == UNION {[1..n -> Requests] : n \in 0..MaxRequested}

\* the providers whose key is set in process.env
Environments == SUBSET Providers

\* the tags of the requests or configs in s, in order
TagsOf(s) == [i \in DOMAIN s |-> s[i].provider]

\* the order in which createAIAdapter looks at process.env (lines 1163-1187)
EnvOrder == <<"openai", "anthropic", "google">>

\* the configs that createAIAdapter collects (lines 1159-1208)
CollectConfigs(providers, env) ==
  IF providers = <<>>
  THEN SelectSeq(EnvOrder, LAMBDA t : t \in env)
  ELSE TagsOf(SelectSeq(providers, LAMBDA r : r.apiKey \/ r.provider \in env))

\* new AIAdapter(configs) (lines 974-987) with addProvider (lines 989-1007)
NewAIAdapter(cfg) ==
  IF \E i \in DOMAIN cfg : cfg[i] \notin Providers
  THEN [st |-> "raised", message |-> "Unknown provider"]
  ELSE IF cfg = <<>>
  THEN [st |-> "raised", message |-> "At least one AI provider must be configured"]
  ELSE [st |-> "ok", currentProvider |-> cfg[1], fallbackProviders |-> Tail(cfg)]

\* createAIAdapter(providers) under the environment env (lines 1156-1216)
CreateAIAdapter(providers, env) ==
  LET cfg == CollectConfigs(providers, env)
  IN IF cfg = <<>>
     THEN [st |-> "raised", message |-> "No AI provider configured"]
     ELSE NewAIAdapter(cfg)

\* what the actions of SpecFunctions leave alone
programVars ==
  <<requests, tokens, concurrent, pc, est, now0, timer, admitted, sampled,
    adapterVars, callVars, historyVars, setCall>>

CallCreateAIAdapter ==
  /\ args.fn = "createAIAdapter"
  /\ ret = NoResult
  /\ ret' = CreateAIAdapter(args.providers, args.env)
  /\ UNCHANGED <<args, programVars>>

\* HTTP statuses of vendor failures
HttpStatuses == {400, 401, 403, 404, 422, 429, 500, 502, 503, 529}

\* handleError of provider args.provider on a vendor failure with the
\* HTTP status args.status
CallHandleError ==
  /\ args.fn = "handleError"
  /\ ret = NoResult
  /\ ret' = [st |-> "ok", val |-> HandleError(args.provider, args.status)]
  /\ UNCHANGED <<args, programVars>>

\* roles of AIMessage that the functions tell apart
Roles == {"system", "user", "assistant"}

\* lengths of the content of a message, in characters
ContentLengths == {0, 4, 8}

Messages == [role : Roles, len : ContentLengths]

MessageLists == UNION {[1..n -> Messages] : n \in 0..MaxMessages}

\* a count that rounds down: Math.floor(n / 3.7)
CountTokensFloor(n) == (10 * n) \div 37

\* countTokens(text) for a text of n characters: Math.ceil(n / 3.7)
CountTokens(n) == (10 * n + 36) \div 37

IsSystem(m) == m.role = "system"
NotSystem(m) == m.role # "system"

\* the indices of the messages of l, in order
AllIndices(l) == [i \in DOMAIN l |-> i]

\* messages.filter(m => m.role !== 'system'), as indices into l
NonSystemIndices(l) == SelectSeq(AllIndices(l), LAMBDA i : NotSystem(l[i]))

\* messages.find(m => m.role === 'system'): its index, 0 if there is none
FindSystem(messages) ==
  IF \E i \in DOMAIN messages : messages[i].role = "system"
  THEN CHOOSE i \in DOMAIN messages :
         /\ messages[i].role = "system"
         /\ \A j \in 1..(i - 1) : messages[j].role # "system"
  ELSE 0

\* totalTokens + n >= maxTokens: a message that fills the budget
\* exactly is refused
OverBudgetAtLimit(totalTokens, n, maxTokens) == totalTokens + n >= maxTokens

\* the test before the break of the loop (line 1143)
OverBudget(totalTokens, n, maxTokens) == totalTokens + n > maxTokens

\* the for loop of truncateMessages from index i downwards (lines 1136-1149);
\* truncated holds indices into messages
RECURSIVE TruncateLoop(_, _, _, _, _, _)
TruncateLoop(messages, maxTokens, keep, i, totalTokens, truncated) ==
  IF i = 0 THEN truncated
  ELSE IF keep /\ messages[i].role = "system"
  THEN TruncateLoop(messages, maxTokens, keep, i - 1, totalTokens, truncated)
  ELSE IF OverBudget(totalTokens, CountTokens(messages[i].len), maxTokens)
  THEN truncated
  ELSE TruncateLoop(messages, maxTokens, keep, i - 1,
                    totalTokens + CountTokens(messages[i].len), <<i>> \o truncated)

\* truncateMessages(messages, maxTokens, keepSystemMessage) (lines 1115-1152):
\* the indices of the returned messages, in the order of the returned list
TruncateMessages(messages, maxTokens, keep) ==
  LET sys == IF keep THEN FindSystem(messages) ELSE 0
  IN IF sys # 0
     THEN TruncateLoop(messages, maxTokens, keep, Len(messages),
                       CountTokens(messages[sys].len), <<sys>>)
     ELSE TruncateLoop(messages, maxTokens, keep, Len(messages), 0, <<>>)

CallCountTokens ==
  /\ args.fn = "countTokens"
  /\ ret = NoResult
  /\ ret' = [st |-> "ok", val |-> CountTokens(args.len)]
  /\ UNCHANGED <<args, programVars>>

CallTruncateMessages ==
  /\ args.fn = "truncateMessages"
  /\ ret = NoResult
  /\ ret' = [st |-> "ok",
             val |-> TruncateMessages(args.messages, args.maxTokens, args.keep)]
  /\ UNCHANGED <<args, programVars>>

\* options.toolChoice: absent, the three named policies, one forced function
ToolChoices == {"absent", "auto", "none", "required", "function"}

\* the two operations of a provider that map an AICompletionOptions
Operations == {"complete", "stream"}

\* AnthropicProvider.convertToolChoice (lines 680-689)
ConvertToolChoice(toolChoice) ==
  CASE toolChoice = "absent" -> "absent"
    [] toolChoice = "auto" -> "auto"
    [] toolChoice = "none" -> "none"
    [] toolChoice = "required" -> "any"
    [] toolChoice = "function" -> "tool"

\* messages.slice(0, -1)
AllButLast(s) == SubSeq(s, 1, Len(s) - 1)

\* a message of the vendor request: its vendor role and the index of the
\* message of the request whose content it carries
SameRole == [r \in Roles |-> r]
AssistantOrUser == [r \in Roles |-> IF r = "assistant" THEN "assistant" ELSE "user"]
ModelOrUser == [r \in Roles |-> IF r = "assistant" THEN "model" ELSE "user"]

\* messages.map(msg => ({role: roleOf[msg.role], content: msg.content}))
\* over the messages with the given indices
Mapped(messages, indices, roleOf) ==
  [k \in DOMAIN indices |-> [role |-> roleOf[messages[indices[k]].role], from |-> indices[k]]]

\* GoogleProvider.convertMessagesToHistory (lines 893-898), over the
\* indices it is handed
ConvertMessagesToHistory(messages, indices) ==
  Mapped(messages, AllButLast(indices), ModelOrUser)

\* the request OpenAIProvider hands to chat.completions.create
\* (lines 335-348, 362-375)
OpenAIRequest(op, messages, toolChoice) ==
  [messages |-> Mapped(messages, AllIndices(messages), SameRole),
   system |-> {},
   last |-> 0,
   params |-> {"model", "temperature", "max_tokens", "top_p", "frequency_penalty",
               "presence_penalty", "stop", "tools", "user"},
   stream |-> (op = "stream"),
   toolChoice |-> toolChoice]

\* the request AnthropicProvider hands to messages.create (lines 541-560,
\* 574-593); system holds the index of the message whose content is the
\* system field, empty when options.systemPrompt is sent instead
AnthropicRequest(op, messages, toolChoice) ==
  LET systemMessage == FindSystem(messages)
  IN [messages |-> Mapped(messages, NonSystemIndices(messages), AssistantOrUser),
      system |-> IF systemMessage # 0 /\ messages[systemMessage].len > 0
                 THEN {systemMessage} ELSE {},
      last |-> 0,
      params |-> {"model", "max_tokens", "temperature", "top_p", "top_k",
                  "stop_sequences", "tools"},
      stream |-> (op = "stream"),
      toolChoice |-> ConvertToolChoice(toolChoice)]

\* what GoogleProvider hands to startChat and sendMessage / sendMessageStream
\* (lines 766-787, 801-822); last is the index of the message that is sent
GoogleRequest(op, messages, toolChoice) ==
  LET all == AllIndices(messages)
  IN [messages |-> IF op = "complete"
                   THEN ConvertMessagesToHistory(messages, all)
                   ELSE ConvertMessagesToHistory(messages, AllButLast(all)),
      system |-> {},
      last |-> Len(messages),
      params |-> {"model", "temperature", "topP", "topK", "maxOutputTokens",
                  "stopSequences"},
      stream |-> (op = "stream"),
      toolChoice |-> "absent"]

VendorRequest(p, op, messages, toolChoice) ==
  CASE p = "openai" -> OpenAIRequest(op, messages, toolChoice)
    [] p = "anthropic" -> AnthropicRequest(op, messages, toolChoice)
    [] p = "google" -> GoogleRequest(op, messages, toolChoice)

\* the part of complete and stream between acquire and the vendor call
CallMapRequest ==
  /\ args.fn = "mapRequest"
  /\ ret = NoResult
  /\ ret' = [st |-> "ok",
             val |-> VendorRequest(args.provider, args.op, args.messages, args.toolChoice)]
  /\ UNCHANGED <<args, programVars>>

InitFunctions ==
  /\ InitRateLimiters
  /\ InitAdapter(<<LimiterUnderTest>>)
  /\ ret = NoResult
  /\ \/ \E l \in RequestLists, env \in Environments :
          args = [fn |-> "createAIAdapter", providers |-> l, env |-> env]
     \/ \E p \in Providers, s \in HttpStatuses :
          args = [fn |-> "handleError", provider |-> p, status |-> s]
     \/ \E l \in MessageLists, m \in 0..MaxBudget, k \in BOOLEAN :
          args = [fn |-> "truncateMessages", messages |-> l, maxTokens |-> m, keep |-> k]
     \/ \E n \in 0..MaxTextLength : args = [fn |-> "countTokens", len |-> n]
     \/ \E p \in Providers, op \in Operations, l \in MessageLists \ {<<>>},
           t \in ToolChoices :
          args = [fn |-> "mapRequest", provider |-> p, op |-> op, messages |-> l,
                  toolChoice |-> t]

NextFunctions ==
  \/ CallCreateAIAdapter
  \/ CallHandleError
  \/ CallTruncateMessages
  \/ CallMapRequest
  \/ CallCountTokens

SpecFunctions == InitFunctions /\ [][NextFunctions]_vars

(***************************************************************************)
(* Claims about the RateLimiter                                            *)
(***************************************************************************)

\* C1: under any interleaving of acquire and release on one RateLimiter,
\* with acquirers suspended at the 1-second wait and resumed in any order,
\* the in-flight count never exceeds maxConcurrent.
C1_ConcurrentNeverExceedsCap ==
  \A p \in Providers : concurrent[p] <= MaxConcurrent

\* C1 witness: the limiter is full while a caller that was turned away has
\* slept through its timeout and is about to evaluate the limits again.
C1_Witness ==
  /\ concurrent[LimiterUnderTest] = MaxConcurrent
  /\ \E c \in Callers : Sleeping(c) /\ timer[c] = 0

\* C2: the number of admissions whose instant lies in the trailing
\* 60-second window never exceeds maxRequestsPerMinute.
C2_AdmissionsInWindowWithinCap ==
  \A p \in Providers : Len(admitted[p]) <= MaxRequestsPerMinute

\* C3: the token estimates of the admissions of the last 60 seconds, the
\* newest admission included, never add up to more than maxTokensPerMinute.
C3_TokensInWindowWithinCap ==
  \A p \in Providers :
    SumSeq([i \in DOMAIN sampled[p] |-> sampled[p][i].tok]) <= MaxTokensPerMinute

\* C5: every pending acquire eventually admits its caller, given that
\* admitted callers release and time keeps advancing.
C5_PendingAcquireIsAdmitted ==
  \A c \in Callers : Sleeping(c) ~> (pc[c] = "holding")

(***************************************************************************)
(* Claims about the providers and the AIAdapter                            *)
(***************************************************************************)
\* the call holds a permit of the provider it runs
Holding(c) == pc[c] \in {"c_call", "s_pull", "s_yield", "s_final"}

\* the provider operation of the call has been left
Exited(c) == pc[c] \in {"c_settled", "s_settled", "done"}

\* the error is one the loop goes on from: retryable, or a rate limit
RetryableOrRateLimit(e) == e.retryable = TRUE \/ e.type = "rate_limit"

\* C4: in every complete and stream operation of a provider an acquire that
\* admitted the caller is followed by exactly one release on the same
\* RateLimiter, whichever way the operation is left: the vendor call
\* returns or raises, the stream ends or fails, the consumer closes the
\* stream early (also through the stream of the AIAdapter); until then the
\* permit is held, so each limiter counts exactly the operations running.
C4_ReleaseExactlyOncePerAcquire ==
  /\ \A c \in Calls : kind[c] \in {"complete", "stream"} =>
       /\ acqs[c] <= 1
       /\ rels[c] <= acqs[c]
       /\ Holding(c) => acqs[c] = 1 /\ rels[c] = 0
       /\ Exited(c) => rels[c] = acqs[c]
       /\ Exited(c) /\ results[c] # <<>> => rels[c] = 1
  /\ \A p \in Providers :
       concurrent[p] = Cardinality({c \in Calls : Holding(c) /\ CurProv(c) = p})

\* C4 witness: a stream of the AIAdapter was closed by its consumer with a
\* chunk in hand, after an earlier provider had failed, and the permit is back
C4_Witness ==
  \E c \in Calls :
    /\ pc[c] = "done"
    /\ outcome[c].st = "closed"
    /\ Len(results[c]) = 2
    /\ results[c][1].st = "err"
    /\ acqs[c] = 1
    /\ rels[c] = 1

\* C6: complete of the AIAdapter attempts the providers in the order
\* [current, fallbacks as configured]; after an error that is retryable or
\* a rate limit the next provider in that order is attempted; after an
\* error that is neither, no further provider is attempted and the caller
\* gets that error.
C6_FallbackOrderOfComplete ==
  \A c \in Calls : kind[c] = "complete" =>
    /\ Tail(provs[c]) = Tail(configs)
    /\ Len(attempts[c]) <= Len(provs[c])
    /\ attempts[c] = SubSeq(provs[c], 1, Len(attempts[c]))
    /\ Len(results[c]) <= Len(attempts[c])
    /\ \A i \in DOMAIN results[c] :
         /\ i < Len(attempts[c]) =>
              results[c][i].st = "err" /\ RetryableOrRateLimit(results[c][i].val)
         /\ results[c][i].st = "err" /\ ~RetryableOrRateLimit(results[c][i].val) =>
              /\ i = Len(attempts[c])
              /\ pc[c] \in {"c_settled", "done"}
              /\ pc[c] = "done" =>
                   outcome[c] = [st |-> "raised", val |-> results[c][i].val]
         /\ results[c][i].st = "err" /\ RetryableOrRateLimit(results[c][i].val)
              /\ i < Len(provs[c]) /\ pc[c] # "c_settled" =>
              Len(attempts[c]) > i

\* C6 witness: of three providers the first failed with a rate limit, the
\* second was attempted and failed with an error that stops the loop
C6_Witness ==
  \E c \in Calls :
    /\ kind[c] = "complete"
    /\ pc[c] = "done"
    /\ Len(provs[c]) = 3
    /\ Len(attempts[c]) = 2
    /\ results[c][1].st = "err"
    /\ results[c][1].val.type = "rate_limit"
    /\ results[c][2].st = "err"
    /\ ~RetryableOrRateLimit(results[c][2].val)
    /\ outcome[c].st = "raised"

\* C7: when complete of the AIAdapter returns and the k-th provider of the
\* attempt order is the first that succeeded, the value returned is that
\* provider's response, unchanged; the k-1 providers before it were each
\* called once, in order, before it; no provider behind it was called.
C7_CompleteReturnsFirstSuccess ==
  \A c \in Calls : kind[c] = "complete" /\ pc[c] = "done" /\ outcome[c].st = "returned" =>
    LET k == Len(results[c])
    IN /\ k >= 1
       /\ results[c][k].st = "ok"
       /\ outcome[c].val = results[c][k].val
       /\ outcome[c].val.from = provs[c][k]
       /\ \A i \in 1..(k - 1) : results[c][i].st = "err"
       /\ attempts[c] = SubSeq(provs[c], 1, k)

\* C7 witness: the second of three providers answered after the first failed
C7_Witness ==
  \E c \in Calls :
    /\ kind[c] = "complete"
    /\ pc[c] = "done"
    /\ outcome[c].st = "returned"
    /\ Len(provs[c]) = 3
    /\ Len(results[c]) = 2

\* C8: when every provider that complete of the AIAdapter attempted failed
\* with a retryable or rate-limit error, the caller gets the error of the
\* last provider attempted; and a call that is over has given its caller a
\* provider's response or an error.
C8_CompleteRaisesLastError ==
  \A c \in Calls : kind[c] = "complete" /\ pc[c] = "done" =>
    /\ \/ /\ outcome[c].st = "returned"
          /\ outcome[c].val.from \in Providers
       \/ /\ outcome[c].st = "raised"
          /\ outcome[c].val.provider \in Providers
    /\ (\A i \in DOMAIN results[c] :
          results[c][i].st = "err" /\ RetryableOrRateLimit(results[c][i].val)) =>
         /\ Len(results[c]) = Len(provs[c])
         /\ outcome[c] = [st |-> "raised", val |-> results[c][Len(results[c])].val]

\* C8 witness: two providers failed with different errors the loop goes on
\* from, and the call is over
C8_Witness ==
  \E c \in Calls :
    /\ kind[c] = "complete"
    /\ pc[c] = "done"
    /\ Len(results[c]) = 2
    /\ Len(provs[c]) = 2
    /\ results[c][1].st = "err"
    /\ results[c][2].st = "err"
    /\ RetryableOrRateLimit(results[c][2].val)
    /\ results[c][1].val # results[c][2].val

\* C9: in stream of the AIAdapter no provider is attempted after a chunk
\* has reached the consumer: every chunk the consumer has comes from the
\* one provider attempted last.
C9_NoFallbackAfterFirstChunk ==
  \A c \in Calls : kind[c] = "stream" =>
    \A i \in DOMAIN observed[c] : observed[c][i].att = Len(attempts[c])

\* the numbers of the events of call c that its provider yields a chunk for
YieldedEvents(c) ==
  {n \in DOMAIN emitted[c] : Yields(provs[c][emitted[c][n].att], emitted[c][n].ev)}

\* C10: within one stream call the chunks the consumer has are the
\* translations of the vendor's events in the order of the events: none out
\* of order, none twice, none missing; and no more chunks than the consumer
\* asked for.
C10_ChunksInVendorOrder ==
  \A c \in Calls : kind[c] = "stream" =>
    /\ Len(observed[c]) <= asked[c]
    /\ Len(observed[c]) = Cardinality(YieldedEvents(c))
    /\ \A j \in DOMAIN observed[c] :
         /\ observed[c][j].n \in YieldedEvents(c)
         /\ observed[c][j].att = emitted[c][observed[c][j].n].att
         /\ observed[c][j].finish =
              FinishReason(provs[c][observed[c][j].att], emitted[c][observed[c][j].n].ev)
    /\ \A j, k \in DOMAIN observed[c] : j < k => observed[c][j].n < observed[c][k].n

\* C10 witness: the consumer asked twice and has two chunks, with a vendor
\* event in between that no chunk is yielded for
C10_Witness ==
  \E c \in Calls :
    /\ kind[c] = "stream"
    /\ Len(observed[c]) = 2
    /\ asked[c] = 2
    /\ Len(emitted[c]) = 3

\* the chunks the consumer got from attempt number a of the stream call c
ChunksOf(c, a) == SelectSeq(observed[c], LAMBDA ch : ch.att = a)

\* C11: when the stream of a provider ends without error, it has emitted at
\* least one chunk, its last chunk carries a non-null finish reason, and no
\* chunk of it follows a chunk with a non-null finish reason; for each
\* provider and whatever events the vendor delivered.
C11_LastChunkCarriesFinishReason ==
  \A c \in Calls :
    kind[c] = "stream" /\ results[c] # <<>> /\ results[c][Len(results[c])].st = "done" =>
      LET ch == ChunksOf(c, Len(results[c]))
      IN /\ ch # <<>>
         /\ ch[Len(ch)].finish # "null"
         /\ \A i \in 1..(Len(ch) - 1) : ch[i].finish = "null"

\* the vendors that have an embedding endpoint
SupportsEmbedding(p) == p \in {"openai", "google"}

\* C12: embed of the AIAdapter attempts only configured providers that
\* support embedding, in the order in which they were configured.
C12_EmbedInConfiguredOrder ==
  \A c \in Calls : kind[c] = "embed" =>
    LET expected == SelectSeq(configs, SupportsEmbedding)
    IN /\ Len(attempts[c]) <= Len(expected)
       /\ attempts[c] = SubSeq(expected, 1, Len(attempts[c]))

\* C13: embed of the AIAdapter falls back as complete does: after an error
\* that is retryable or a rate limit the next provider that supports
\* embedding is attempted; after an error that is neither, no further
\* provider is attempted and the caller gets that error.
C13_EmbedFallbackRule ==
  \A c \in Calls : kind[c] = "embed" =>
    \A i \in DOMAIN results[c] :
      /\ i < Len(attempts[c]) =>
           results[c][i].st = "err" /\ RetryableOrRateLimit(results[c][i].val)
      /\ results[c][i].st = "err" /\ ~RetryableOrRateLimit(results[c][i].val) =>
           /\ i = Len(attempts[c])
           /\ pc[c] = "done" =>
                outcome[c] = [st |-> "raised", val |-> results[c][i].val]

\* C14: embed on an AIAdapter whose only provider is Anthropic, and embed of
\* the Anthropic provider itself, raise an error of the kind
\* unsupported-operation, which is not marked retryable.
C14_EmbedUnsupportedIsTyped ==
  \A c \in Calls :
    /\ pc[c] = "done"
    /\ \/ kind[c] = "embed" /\ configs = <<"anthropic">>
       \/ kind[c] = "provider_embed" /\ provs[c] = <<"anthropic">>
    => /\ outcome[c].st = "raised"
       /\ outcome[c].val.type = "unsupported_operation"
       /\ outcome[c].val.retryable = FALSE

\* C15: setProvider with a configured tag makes the tag the current
\* provider, and the current provider is the first one that every complete
\* and stream call started from then on attempts; setProvider with a tag
\* that is not configured raises and leaves the current provider as it
\* was; no setProvider call changes the fallback list.
C15_SetProviderSetsFirstAttempt ==
  [][/\ fallbackProviders' = fallbackProviders
     /\ setCall' # setCall /\ setCall'.st = "ok" =>
          /\ \E i \in DOMAIN configs : configs[i] = setCall'.tag
          /\ currentProvider' = setCall'.tag
     /\ setCall' # setCall /\ setCall'.st = "raised" =>
          /\ \A i \in DOMAIN configs : configs[i] # setCall'.tag
          /\ currentProvider' = currentProvider
     /\ setCall' = setCall => currentProvider' = currentProvider
     /\ \A c \in Calls :
          kind'[c] \in {"complete", "stream"} /\ attempts[c] = <<>> /\ attempts'[c] # <<>> =>
            /\ attempts'[c] = <<currentProvider>>
            /\ provs'[c] = <<currentProvider>> \o Tail(configs)]_vars

\* C15 witness: a call has first attempted a provider that setProvider made
\* current, and the last setProvider call, with another tag, has raised
C15_Witness ==
  /\ setCall.st = "raised"
  /\ currentProvider # configs[1]
  /\ fallbackProviders # <<>>
  /\ \E c \in Calls : attempts[c] # <<>> /\ attempts[c][1] = currentProvider

\* the requested providers whose credential resolves: apiKey given, or the
\* provider's key set in the environment
Resolvable(providers, env) ==
  SelectSeq(providers, LAMBDA r : r.apiKey \/ r.provider \in env)

\* C16: construction raises exactly when no requested provider has a
\* resolvable credential (the empty list included); otherwise the requested
\* providers without one are skipped and the others keep their order, the
\* first of them primary, the rest fallbacks.
C16_ConstructionKeepsResolvable ==
  args.fn = "createAIAdapter" /\ ret # NoResult =>
    LET kept == TagsOf(Resolvable(args.providers, args.env))
    IN /\ ret.st = "raised" <=> kept = <<>>
       /\ ret.st = "ok" =>
            /\ ret.currentProvider = kept[1]
            /\ ret.fallbackProviders = Tail(kept)

\* C17: for each provider and every HTTP status s of a vendor failure the
\* normalized error is: 429 rate-limit and retryable; 401 authentication
\* and not retryable; 500 and above server-error and retryable; any other
\* 4xx invalid-request and not retryable.
C17_StatusClassification ==
  args.fn = "handleError" /\ ret # NoResult =>
    LET e == ret.val
        s == args.status
    IN /\ s = 429 => e.type = "rate_limit" /\ e.retryable = TRUE
       /\ s = 401 => e.type = "authentication" /\ e.retryable = FALSE
       /\ s >= 500 => e.type = "server_error" /\ e.retryable = TRUE
       /\ s \in 400..499 /\ s \notin {401, 429} =>
            e.type = "invalid_request" /\ e.retryable = FALSE

\* AIError['type'] (line 170), and the kind for an unsupported operation
Classifications ==
  {"rate_limit", "invalid_request", "authentication", "server_error", "timeout"}

\* C18: every error that leaves complete, stream or embed of a provider
\* carries that provider's tag, a classification and a boolean retryable
\* flag, or is of the unsupported-operation kind.
C18_ErrorsAreNormalized ==
  \A c \in Calls : \A i \in DOMAIN results[c] :
    results[c][i].st = "err" =>
      LET e == results[c][i].val
      IN \/ /\ e.provider = attempts[c][i]
            /\ e.type \in Classifications
            /\ e.retryable \in BOOLEAN
         \/ e.type = "unsupported_operation"

\* the call is inside a vendor network call of its provider
InVendorCall(c) == pc[c] \in {"c_call", "s_pull", "e_call"}

\* C19: every vendor call of a provider, in complete, stream and embed
\* alike, is made while the operation holds a permit of the provider's
\* RateLimiter: after acquire has admitted it and before the release.
C19_VendorCallHoldsPermit ==
  \A c \in Calls : InVendorCall(c) =>
    /\ acqs[c] = 1
    /\ rels[c] = 0
    /\ concurrent[CurProv(c)] >= 1

\* the estimated tokens of the messages of l with the indices in s
TotalTokens(l, s) == SumSeq([i \in DOMAIN s |-> CountTokens(l[s[i]].len)])

\* C20: for every message list, every maxTokens >= 0 and either value of
\* keepSystemMessage, the estimated tokens of the messages that
\* truncateMessages returns, the kept system message included, add up to
\* no more than maxTokens.
C20_TruncatedWithinBudget ==
  args.fn = "truncateMessages" /\ ret # NoResult =>
    TotalTokens(args.messages, ret.val) <= args.maxTokens

\* the last k entries of s
Suffix(s, k) == SubSeq(s, Len(s) - k + 1, Len(s))

\* the longest suffix of the indices s whose messages of l, with the tokens
\* `used` already spent, stay within maxTokens; empty when nothing fits
LongestFitting(l, s, used, maxTokens) ==
  LET fits == {k \in 0..Len(s) : used + TotalTokens(l, Suffix(s, k)) <= maxTokens}
  IN IF fits = {} THEN <<>>
     ELSE Suffix(s, CHOOSE k \in fits : \A j \in fits : j <= k)

\* C21: with keepSystemMessage the result of truncateMessages holds the
\* (first) system message of the list when there is one, and its non-system
\* messages are exactly the longest suffix of the non-system messages of the
\* list that fits into maxTokens together with that system message; without
\* keepSystemMessage the result is the longest suffix of the list that fits.
C21_LongestSuffixIsKept ==
  args.fn = "truncateMessages" /\ ret # NoResult =>
    LET l == args.messages
        sys == FindSystem(l)
        got == ret.val
    IN IF args.keep
       THEN /\ sys # 0 => \E i \in DOMAIN got : got[i] = sys
            /\ SelectSeq(got, LAMBDA i : NotSystem(l[i])) =
                 LongestFitting(l, NonSystemIndices(l),
                                IF sys = 0 THEN 0 ELSE CountTokens(l[sys].len),
                                args.maxTokens)
            /\ \A i \in DOMAIN got : IsSystem(l[got[i]]) => got[i] = sys
       ELSE got = LongestFitting(l, AllIndices(l), 0, args.maxTokens)

\* a truncation that kept the system message and some, not all, of the
\* other messages
C21_Witness ==
  /\ args.fn = "truncateMessages" /\ ret # NoResult /\ args.keep
  /\ FindSystem(args.messages) # 0
  /\ Len(ret.val) = 2
  /\ Len(args.messages) = 3
  /\ Len(NonSystemIndices(args.messages)) = 2

\* C22: the list returned by truncateMessages is in the order of its input:
\* of two returned messages the one earlier in the input is earlier in the
\* result, the kept system message included.
C22_TruncationKeepsOrder ==
  args.fn = "truncateMessages" /\ ret # NoResult =>
    \A i, j \in DOMAIN ret.val : i < j => ret.val[i] < ret.val[j]

\* the indices of the request's messages that a vendor request carries, in
\* its message list, its system field or as the message that is sent
Reaching(v) ==
  {v.messages[k].from : k \in DOMAIN v.messages} \cup v.system \cup ({v.last} \ {0})

\* the other operation
Other(op) == IF op = "complete" THEN "stream" ELSE "complete"

\* C23: for each provider and every request, stream and complete send the
\* vendor the same mapped request but for the streaming flag; in particular
\* the same messages of the request reach the vendor in both.
C23_StreamMapsLikeComplete ==
  args.fn = "mapRequest" /\ ret # NoResult =>
    LET other == VendorRequest(args.provider, Other(args.op), args.messages, args.toolChoice)
    IN /\ [ret.val EXCEPT !.stream = TRUE] = [other EXCEPT !.stream = TRUE]
       /\ ret.val.stream = (args.op = "stream")
       /\ Reaching(ret.val) = Reaching(other)

\* C24: for each provider and each tool-choice policy of a request the
\* vendor request carries a tool-choice setting: for Anthropic auto, none,
\* any for required and tool for a named function, for OpenAI the policy
\* itself; without a policy no setting is sent.
C24_ToolChoiceReachesVendor ==
  args.fn = "mapRequest" /\ ret # NoResult =>
    LET policy == args.toolChoice
        sent == ret.val.toolChoice
    IN /\ policy = "absent" => sent = "absent"
       /\ policy # "absent" => sent # "absent"
       /\ args.provider = "openai" => sent = policy
       /\ args.provider = "anthropic" =>
            /\ policy = "auto" => sent = "auto"
            /\ policy = "none" => sent = "none"
            /\ policy = "required" => sent = "any"
            /\ policy = "function" => sent = "tool"

\* C28: the message list AnthropicProvider sends holds no system message,
\* the content of every system message of the request is in the system
\* field, and the other messages are sent in their original order.
C28_AnthropicSystemField ==
  args.fn = "mapRequest" /\ args.provider = "anthropic" /\ ret # NoResult =>
    LET l == args.messages
        v == ret.val
    IN /\ \A k \in DOMAIN v.messages : NotSystem(l[v.messages[k].from])
       /\ \A i \in DOMAIN l : IsSystem(l[i]) /\ l[i].len > 0 => i \in v.system
       /\ [k \in DOMAIN v.messages |-> v.messages[k].from] = NonSystemIndices(l)

\* the last element of a non-empty sequence
Last(s) == s[Len(s)]

\* C25: an admission by acquire(estimatedTokens) appends one entry stamped
\* with the time of the admission to the request window, appends
\* estimatedTokens to the token window exactly when it is positive and adds
\* one to the in-flight count; release only takes one from the in-flight
\* count and leaves both windows as they are.
C25_AdmissionAndReleaseEffects ==
  [][\A c \in Callers :
       LET p == LimiterUnderTest
       IN /\ pc[c] \in {"idle", "sleeping"} /\ pc'[c] = "holding" =>
               /\ Len(requests'[p]) = Len(Clean(requests[p])) + 1
               /\ Last(requests'[p]) = DateNow
               /\ IF pc[c] = "sleeping"
                  THEN tokens'[p] = PushTokens(Clean(tokens[p]), est[c])
                  ELSE \E e \in Estimates : tokens'[p] = PushTokens(Clean(tokens[p]), e)
               /\ concurrent'[p] = concurrent[p] + 1
          /\ pc[c] = "holding" /\ pc'[c] = "idle" =>
               /\ concurrent'[p] = concurrent[p] - 1
               /\ requests'[p] = requests[p]
               /\ tokens'[p] = tokens[p]]_vars

\* the permits out on the RateLimiters of all providers
InFlightTotal == concurrent["openai"] + concurrent["anthropic"] + concurrent["google"]

\* C26: a complete or stream call of the AIAdapter has given back the permit
\* of a failed provider before it asks the next provider for one: at every
\* instant the call holds at most one permit over all providers, and none
\* once it has returned or raised.
C26_OnePermitPerFacadeCall ==
  (\A c \in Calls : kind[c] \in {"none", "complete", "stream"}) =>
    /\ InFlightTotal <= Cardinality({c \in Calls : Holding(c)})
    /\ (\A c \in Calls : pc[c] \in {"c_settled", "s_settled", "done"}) => InFlightTotal = 0

\* the call holds the permit of its second provider after the first failed
C26_Witness ==
  \E c \in Calls :
    /\ kind[c] \in {"complete", "stream"}
    /\ Len(attempts[c]) = 2
    /\ Len(results[c]) = 1
    /\ results[c][1].st = "err"
    /\ Holding(c)
    /\ concurrent[attempts[c][2]] = 1
    /\ concurrent[attempts[c][1]] = 0

\* C27: countTokens(text) is the ceiling of text.length / 3.7, the least k
\* with 37 * k >= 10 * length: 0 only for the empty text, never smaller
\* for a longer text, and for a text of 2 or more characters more than 0
\* and less than its length.
C27_CountTokensIsCeiling ==
  args.fn = "countTokens" /\ ret # NoResult =>
    LET n == args.len
        k == ret.val
    IN /\ 37 * k >= 10 * n
       /\ k > 0 => 37 * (k - 1) < 10 * n
       /\ k >= 0
       /\ (k = 0) = (n = 0)
       /\ \A m \in 0..n : CountTokens(m) <= k
       /\ n >= 2 => 0 < k /\ k < n

\* countTokens of an 11-character text is 3
C27_Witness ==
  /\ args.fn = "countTokens" /\ ret # NoResult
  /\ args.len = 11
  /\ ret.val = 3

\* C29: whatever setProvider calls came before it, a complete or stream call
\* of the AIAdapter whose attempts all fail with a retryable error has
\* attempted every configured provider exactly once: none twice, none left
\* out.
C29_EveryProviderAttemptedOnce ==
  \A c \in Calls :
    /\ kind[c] \in {"complete", "stream"}
    /\ pc[c] = "done"
    /\ outcome[c].st = "raised"
    /\ \A i \in DOMAIN results[c] :
         results[c][i].st = "err" /\ RetryableOrRateLimit(results[c][i].val)
    => /\ \A i, j \in DOMAIN attempts[c] : i # j => attempts[c][i] # attempts[c][j]
       /\ {attempts[c][i] : i \in DOMAIN attempts[c]} = {configs[i] : i \in DOMAIN configs}

\* the operation of c is between its admission and its release on p
BetweenAcquireAndRelease(c, p) ==
  /\ kind[c] \in {"complete", "stream"}
  /\ pc[c] \in {"c_call", "s_pull", "s_yield", "s_final"}
  /\ CurProv(c) = p

\* C30: with complete and stream calls running on a provider at the same
\* time, vendor failures, streams closed early and streams closed before
\* their first chunk was asked for included, the in-flight count of the
\* provider's RateLimiter is never negative and is the number of operations
\* between their acquire and their release.
C30_InFlightCountsRunningOperations ==
  \A p \in Providers :
    /\ concurrent[p] >= 0
    /\ concurrent[p] = Cardinality({c \in Callers : BetweenAcquireAndRelease(c, p)})

\* one call is suspended at a yield with its permit while the other waits
\* in acquire for it
C30_Witness ==
  \E c, d \in Callers :
    /\ pc[c] = "s_yield"
    /\ pc[d] \in {"c_sleep", "s_sleep"}
    /\ CurProv(c) = CurProv(d)
    /\ concurrent[CurProv(c)] = 1

====
